---- MODULE Spec2Model ----
(***************************************************************************)
(* State-machine model of the order / payment handlers of the marketplace  *)
(* backend: controllers/orders (createOrder, updateOrderToPaid,            *)
(* updateOrderToDelivered, updateOrder), controllers/payments              *)
(* (createPaymentIntent, confirmPayment, webhook), controllers/products    *)
(* (updateProduct) and controllers/admin (updateOrderStatus).              *)
(*                                                                         *)
(* Documents are records; a collection is a sequence whose index is the    *)
(* document id (ids are allocated in order and the modelled handlers never *)
(* delete).  A nullable field is <<>> when unset and <<v>> when set.       *)
(***************************************************************************)
EXTENDS Integers, Sequences, FiniteSets, TLC

----------------------------------------------------------------------------
(* Bounds of the model *)

MaxOrders == 1
MaxIntents == 2
MaxTime == 1
MaxPrice == 2

----------------------------------------------------------------------------
(* Nullable values *)

Null == <<>>
Some(v) == <<v>>
Val(n) == n[1]

----------------------------------------------------------------------------
(* Users, as the authentication middleware supplies them (req.user) *)

Users == {"u1", "u2", "adm"}
Customers == {"u1"}
Role(u) == IF u = "adm" THEN "admin" ELSE IF u = "u2" THEN "seller" ELSE "user"
Email(u) == <<"mail", u>>

(* Catalog *)
ProductIds == {"p1"}
UnknownProduct == "p9"
Prices == 1..MaxPrice
Seller(p) == "u2"

(* Clock values returned by Date.now() *)
Times == 0..MaxTime

(* Order status values the handlers read and write *)
Statuses == {"pending", "processing", "delivered"}

(* Identifiers *)
OrderIds == 1..MaxOrders
UnknownOrder == MaxOrders + 1
IntentId(n) == <<"pi", n>>
IntentIds == {IntentId(n) : n \in 1..MaxIntents}
UnknownIntent == <<"pi", 0>>
ForeignPayment == <<"ext", 1>>
(* The gateway's own timestamp of an intent (paymentIntent.created) *)
Created(pid) == <<"created", pid>>

VARIABLES
    products,   \* Product collection: product id -> price
    orders,     \* Order collection: sequence of order documents, id = index
    intents,    \* gateway side: sequence of payment intents, IntentId(index)
    now,        \* the clock read by Date.now()
    confirm,    \* the confirmPayment request in flight (between its awaits)
    resp,       \* the last response sent: handler and HTTP status
    inbox       \* the payment requests still to arrive ("any": no limit)

vars == <<products, orders, intents, now, confirm, resp, inbox>>

----------------------------------------------------------------------------
(* Helpers *)

Exists(o) == o \in 1..Len(orders)
IntentIndex(pid) == IF Len(pid) = 2 /\ pid[1] = "pi" THEN pid[2] ELSE 0
IntentExists(pid) == IntentIndex(pid) \in 1..Len(intents)

Respond(op, status) == resp' = [op |-> op, status |-> status]

(* A request of kind r reaches its route: always possible when the inbox is
   open, and once per pending request otherwise *)
Arrive(r) ==
    IF "any" \in inbox THEN UNCHANGED inbox
    ELSE r \in inbox /\ inbox' = inbox \ {r}

RECURSIVE SumSeq(_)
SumSeq(s) == IF s = <<>> THEN 0 ELSE Head(s) + SumSeq(Tail(s))

----------------------------------------------------------------------------
(* Order documents *)

(* Field defaults of a new Order document (the schema the controllers use) *)
OrderDefaults ==
    [isPaid |-> FALSE, paidAt |-> Null, paymentResult |-> Null,
     isDelivered |-> FALSE, deliveredAt |-> Null, status |-> "pending"]

(* createOrder: the price snapshot taken from the catalog, one entry per item *)
OrderItems(items, catalog) ==
    [k \in 1..Len(items) |->
        [product |-> items[k].product, quantity |-> items[k].quantity,
         price |-> catalog[items[k].product]]]

(* createOrder: itemsPrice accumulated over the items *)
ItemsPrice(items, catalog) ==
    SumSeq([k \in 1..Len(items) |-> catalog[items[k].product] * items[k].quantity])

(* createOrder: totalPrice = itemsPrice + taxPrice + shippingPrice *)
TotalPrice(itemsPrice, taxPrice, shippingPrice) ==
    itemsPrice + taxPrice + shippingPrice

NewOrder(user, items, taxPrice, shippingPrice, catalog) ==
    [user |-> user, items |-> OrderItems(items, catalog), taxPrice |-> taxPrice,
     shippingPrice |-> shippingPrice,
     totalPrice |-> TotalPrice(ItemsPrice(items, catalog), taxPrice, shippingPrice),
     isPaid |-> OrderDefaults.isPaid, paidAt |-> OrderDefaults.paidAt,
     paymentResult |-> OrderDefaults.paymentResult,
     isDelivered |-> OrderDefaults.isDelivered,
     deliveredAt |-> OrderDefaults.deliveredAt, status |-> OrderDefaults.status]

(* document.save(): only the paths whose value changed since the load are written *)
SaveModified(stored, loaded, edited) ==
    [f \in DOMAIN stored |-> IF edited[f] # loaded[f] THEN edited[f] ELSE stored[f]]

(* Request bodies of createOrder *)
ItemLists ==
    { <<>>,
      << [product |-> UnknownProduct, quantity |-> 1] >>,
      << [product |-> "p1", quantity |-> 1], [product |-> "p1", quantity |-> 2] >> }
Charges ==
    { [taxPrice |-> 0, shippingPrice |-> 0], [taxPrice |-> 1, shippingPrice |-> 1] }

(* req.body.items of createOrder: a list, or no such field *)
ItemBodies == {Null} \cup {Some(items) : items \in ItemLists}

----------------------------------------------------------------------------
(* Initial state: a seeded catalog, no orders, no intents, no request in flight *)

Idle == [pc |-> "idle"]

Init ==
    /\ products \in [ProductIds -> Prices]
    /\ orders = <<>>
    /\ intents = <<>>
    /\ now = 0
    /\ confirm = Idle
    /\ resp = [op |-> "none", status |-> 0]
    /\ inbox = {"any"}

(* Time passes between two readings of Date.now() *)
Tick ==
    /\ now < MaxTime
    /\ now' = now + 1
    /\ UNCHANGED <<products, orders, intents, confirm, resp, inbox>>

----------------------------------------------------------------------------
(* controllers/orders *)

(* items is req.body.items: Null when the body has no such field.  The test
   `items && items.length === 0` is false for a missing field, and the loop
   `for (const item of items)` then throws, which is answered as a server
   error *)
createOrder(user, items, taxPrice, shippingPrice) ==
    /\ IF items = Null
       THEN Respond("createOrder", 500) /\ UNCHANGED orders
       ELSE IF Val(items) = <<>>
       THEN Respond("createOrder", 400) /\ UNCHANGED orders
       ELSE IF \E k \in 1..Len(Val(items)) : Val(items)[k].product \notin DOMAIN products
       THEN Respond("createOrder", 404) /\ UNCHANGED orders
       ELSE /\ Len(orders) < MaxOrders
            /\ orders' = Append(orders,
                            NewOrder(user, Val(items), taxPrice, shippingPrice, products))
            /\ Respond("createOrder", 201)
    /\ UNCHANGED <<products, intents, now, confirm, inbox>>

(* Owner-or-admin check shared by updateOrderToPaid and updateOrder *)
OwnerOrAdmin(order, user) == order.user = user \/ Role(user) = "admin"

PaidBodies(user) ==
    { [id |-> pid, status |-> "COMPLETED", update_time |-> Created(pid),
       email_address |-> Email(user)] : pid \in {ForeignPayment} }

updateOrderToPaid(o, user, body) ==
    /\ IF ~Exists(o)
       THEN Respond("updateOrderToPaid", 404) /\ UNCHANGED orders
       ELSE IF ~OwnerOrAdmin(orders[o], user)
       THEN Respond("updateOrderToPaid", 401) /\ UNCHANGED orders
       ELSE /\ orders' = [orders EXCEPT ![o] =
                    [@ EXCEPT !.isPaid = TRUE, !.paidAt = Some(now),
                              !.paymentResult = Some(body)]]
            /\ Respond("updateOrderToPaid", 200)
    /\ UNCHANGED <<products, intents, now, confirm, inbox>>

updateOrderToDelivered(o, user) ==
    /\ Role(user) = "admin"
    /\ IF ~Exists(o)
       THEN Respond("updateOrderToDelivered", 404) /\ UNCHANGED orders
       ELSE /\ orders' = [orders EXCEPT ![o] =
                    [@ EXCEPT !.isDelivered = TRUE, !.deliveredAt = Some(now),
                              !.status = "delivered"]]
            /\ Respond("updateOrderToDelivered", 200)
    /\ UNCHANGED <<products, intents, now, confirm, inbox>>

(* findByIdAndUpdate(id, req.body): the body's fields replace the stored ones *)
ApplyBody(order, body) ==
    [f \in DOMAIN order |-> IF f \in DOMAIN body THEN body[f] ELSE order[f]]

UpdateBodies == { [status |-> "pending"], [isPaid |-> FALSE] }

updateOrder(o, user, body) ==
    /\ IF ~Exists(o)
       THEN Respond("updateOrder", 404) /\ UNCHANGED orders
       ELSE IF ~OwnerOrAdmin(orders[o], user)
       THEN Respond("updateOrder", 401) /\ UNCHANGED orders
       ELSE /\ orders' = [orders EXCEPT ![o] = ApplyBody(@, body)]
            /\ Respond("updateOrder", 200)
    /\ UNCHANGED <<products, intents, now, confirm, inbox>>

----------------------------------------------------------------------------
(* controllers/products *)

SellerOrAdmin(p, user) == Seller(p) = user \/ Role(user) = "admin"

updateProduct(p, user, price) ==
    /\ Role(user) \in {"seller", "admin"}
    /\ IF p \notin DOMAIN products
       THEN Respond("updateProduct", 404) /\ UNCHANGED products
       ELSE IF ~SellerOrAdmin(p, user)
       THEN Respond("updateProduct", 401) /\ UNCHANGED products
       ELSE /\ products' = [products EXCEPT ![p] = price]
            /\ Respond("updateProduct", 200)
    /\ UNCHANGED <<orders, intents, now, confirm, inbox>>

----------------------------------------------------------------------------
(* controllers/admin *)

updateOrderStatus(o, user, status) ==
    /\ Role(user) = "admin"
    /\ IF ~Exists(o)
       THEN Respond("updateOrderStatus", 404) /\ UNCHANGED orders
       ELSE /\ orders' = [orders EXCEPT ![o] =
                    IF status = "delivered"
                    THEN [@ EXCEPT !.status = status, !.isDelivered = TRUE,
                                   !.deliveredAt = Some(now)]
                    ELSE [@ EXCEPT !.status = status]]
            /\ Respond("updateOrderStatus", 200)
    /\ UNCHANGED <<products, intents, now, confirm, inbox>>

----------------------------------------------------------------------------
(* The payment gateway (stripe), as the controllers use it *)

WebhookSecret == "whsec"
ForgedKey == "forged"

(* The signature the gateway computes over a payload with a signing key *)
Sign(payload, key) == [payload |-> payload, key |-> key]

(* Variant: only the signing key is compared, not the signed payload *)
constructEvent_KeyOnly(payload, sig, secret) == sig.key = secret

(* stripe.webhooks.constructEvent: throws unless the signature header is the
   signature of this very payload under the endpoint's secret *)
constructEvent(payload, sig, secret) == sig = Sign(payload, secret)

EventTypes ==
    {"payment_intent.succeeded", "payment_intent.payment_failed", "payment_intent.created"}

(* The events the gateway itself emits (and may deliver more than once, or
   late): a payment-success event only for an intent that succeeded; the
   other events of an intent date from before its success and carry the
   status it had then *)
GatewayEvents ==
    { [type |-> t, id |-> IntentId(i),
       status |-> IF t = "payment_intent.succeeded" THEN intents[i].status
                  ELSE "requires_payment_method",
       amount |-> intents[i].amount] :
        <<t, i>> \in { <<tt, ii>> \in EventTypes \X (1..Len(intents)) :
            (tt = "payment_intent.succeeded") => (intents[ii].status = "succeeded") } }

(* Payloads anyone can post to the public webhook route *)
ForgedEvents ==
    { [type |-> t, id |-> pid, status |-> "succeeded", amount |-> 0] :
        t \in EventTypes, pid \in IntentIds }

(* The signature headers a forger can attach: one made with a key of its own,
   or the one copied from the genuine delivery it tampered with *)
ForgedSignatures(payload) ==
    {Sign(payload, ForgedKey)} \cup
    {Sign(g, WebhookSecret) :
        g \in {e \in GatewayEvents : e.id = payload.id /\ e.type = payload.type}}

(* The customer completes the payment on the gateway's side *)
GatewaySucceed(i) ==
    /\ i \in 1..Len(intents)
    /\ intents[i].status = "requires_payment_method"
    /\ intents' = [intents EXCEPT ![i].status = "succeeded"]
    /\ UNCHANGED <<products, orders, now, confirm, resp, inbox>>

----------------------------------------------------------------------------
(* controllers/payments *)

(* Variant: the owner-or-admin rule of the orders controller used here too *)
IsOwner_OrAdmin(order, user) == order.user = user \/ Role(user) = "admin"

IsOwner(order, user) == order.user = user

(* createPaymentIntent: the amount, from the populated (live) product prices *)
TotalAmount(order) ==
    SumSeq([k \in 1..Len(order.items) |->
                products[order.items[k].product] * order.items[k].quantity])

IntentAmount(order) == TotalAmount(order) * 100

createPaymentIntent(o, user) ==
    /\ IF ~Exists(o)
       THEN Respond("createPaymentIntent", 404) /\ UNCHANGED intents
       ELSE IF ~IsOwner(orders[o], user)
       THEN Respond("createPaymentIntent", 401) /\ UNCHANGED intents
       ELSE IF orders[o].isPaid
       THEN Respond("createPaymentIntent", 400) /\ UNCHANGED intents
       ELSE /\ Len(intents) < MaxIntents
            /\ intents' = Append(intents,
                    [status |-> "requires_payment_method",
                     amount |-> IntentAmount(orders[o]),
                     order |-> o])
            /\ Respond("createPaymentIntent", 200)
    /\ UNCHANGED <<products, orders, now, confirm, inbox>>

(* confirmPayment, up to its first await: Order.findById and the two checks *)
ConfirmLoad(o, pid, user) ==
    /\ confirm.pc = "idle"
    /\ Arrive("confirmPayment")
    /\ IF ~Exists(o)
       THEN Respond("confirmPayment", 404) /\ UNCHANGED confirm
       ELSE IF ~IsOwner(orders[o], user)
       THEN Respond("confirmPayment", 401) /\ UNCHANGED confirm
       ELSE /\ confirm' = [pc |-> "loaded", orderId |-> o, paymentId |-> pid,
                           user |-> user, order |-> orders[o]]
            /\ UNCHANGED resp
    /\ UNCHANGED <<products, orders, intents, now>>

(* Variant: the total is recomputed from the live catalog when marking paid *)
MarkPaid_Recompute(order, intent, pid, user) ==
    [order EXCEPT !.isPaid = TRUE, !.paidAt = Some(now),
                  !.totalPrice = TotalPrice(TotalAmount(order), order.taxPrice,
                                            order.shippingPrice),
                  !.paymentResult = Some([id |-> pid, status |-> intent.status,
                                          update_time |-> Created(pid),
                                          email_address |-> Email(user)])]

(* Variant: the paid flag is set without the payment time *)
MarkPaid_NoPaidAt(order, intent, pid, user) ==
    [order EXCEPT !.isPaid = TRUE, !.paidAt = Null,
                  !.paymentResult = Some([id |-> pid, status |-> intent.status,
                                          update_time |-> Created(pid),
                                          email_address |-> Email(user)])]

(* confirmPayment: the fields it assigns on the loaded document *)
MarkPaid(order, intent, pid, user) ==
    [order EXCEPT !.isPaid = TRUE, !.paidAt = Some(now),
                  !.paymentResult = Some([id |-> pid, status |-> intent.status,
                                          update_time |-> Created(pid),
                                          email_address |-> Email(user)])]

(* Variant: any status the gateway reports passes the verification *)
PaymentSucceeded_AnyStatus(intent) == intent.status \in {"succeeded", "requires_payment_method"}

(* confirmPayment: the test of the retrieved intent's status *)
PaymentSucceeded(intent) == intent.status = "succeeded"

(* confirmPayment, after stripe.paymentIntents.retrieve returned (it throws
   for an intent the gateway cannot return) *)
ConfirmVerify ==
    /\ confirm.pc = "loaded"
    /\ IF ~IntentExists(confirm.paymentId)
       THEN Respond("confirmPayment", 500) /\ confirm' = Idle
       ELSE IF ~PaymentSucceeded(intents[IntentIndex(confirm.paymentId)])
       THEN Respond("confirmPayment", 400) /\ confirm' = Idle
       ELSE /\ confirm' = [pc |-> "saving", orderId |-> confirm.orderId,
                           user |-> confirm.user, order |-> confirm.order,
                           edited |-> MarkPaid(confirm.order,
                                        intents[IntentIndex(confirm.paymentId)],
                                        confirm.paymentId, confirm.user)]
            /\ UNCHANGED resp
    /\ UNCHANGED <<products, orders, intents, now, inbox>>

(* confirmPayment: order.save() and the response *)
ConfirmSave ==
    /\ confirm.pc = "saving"
    /\ orders' = [orders EXCEPT ![confirm.orderId] =
                    SaveModified(@, confirm.order, confirm.edited)]
    /\ Respond("confirmPayment", 200)
    /\ confirm' = Idle
    /\ UNCHANGED <<products, intents, now, inbox>>

(* Order.findOneAndUpdate({'paymentResult.id': id}, ...): the first match *)
Matches(id) ==
    { o \in 1..Len(orders) :
        orders[o].paymentResult # Null /\ Val(orders[o].paymentResult).id = id }

FirstMatch(id) == CHOOSE o \in Matches(id) : \A q \in Matches(id) : o <= q

(* Variant: the payment_failed case falls through to the success case *)
EventCase_FailedPays(type) ==
    IF type \in {"payment_intent.succeeded", "payment_intent.payment_failed"}
    THEN "succeeded" ELSE "default"

(* switch (event.type): the case that handles an event *)
EventCase(type) ==
    IF type = "payment_intent.succeeded" THEN "succeeded"
    ELSE IF type = "payment_intent.payment_failed" THEN "payment_failed"
    ELSE "default"

WebhookUpdate(order, event) ==
    [order EXCEPT !.isPaid = TRUE, !.paidAt = Some(now),
                  !.paymentResult = Some([Val(@) EXCEPT !.status = event.status])]

webhook(payload, sig) ==
    /\ Arrive("webhook")
    /\ IF ~constructEvent(payload, sig, WebhookSecret)
       THEN Respond("webhook", 400) /\ UNCHANGED orders
       ELSE /\ IF EventCase(payload.type) = "succeeded" /\ Matches(payload.id) # {}
               THEN orders' = [orders EXCEPT ![FirstMatch(payload.id)] =
                                    WebhookUpdate(@, payload)]
               ELSE UNCHANGED orders
            /\ Respond("webhook", 200)
    /\ UNCHANGED <<products, intents, now, confirm>>

----------------------------------------------------------------------------
(* The system: any handler may run next, on any request *)

Next ==
    \/ Tick
    \/ \E u \in Customers, items \in ItemLists, c \in Charges :
            createOrder(u, Some(items), c.taxPrice, c.shippingPrice)
    \/ \E o \in OrderIds \cup {UnknownOrder}, u \in Users :
            \E body \in PaidBodies(u) : updateOrderToPaid(o, u, body)
    \/ \E p \in ProductIds \cup {UnknownProduct}, u \in Users, price \in Prices :
            updateProduct(p, u, price)
    \/ \E i \in 1..MaxIntents : GatewaySucceed(i)
    \/ \E o \in OrderIds \cup {UnknownOrder}, u \in Users : createPaymentIntent(o, u)
    \/ \E o \in OrderIds \cup {UnknownOrder}, u \in Users,
          pid \in IntentIds \cup {UnknownIntent} : ConfirmLoad(o, pid, u)
    \/ ConfirmVerify
    \/ ConfirmSave
    \/ \E payload \in GatewayEvents : webhook(payload, Sign(payload, WebhookSecret))
    \/ \E payload \in ForgedEvents :
            \E sig \in ForgedSignatures(payload) : webhook(payload, sig)

Spec == Init /\ [][Next]_vars

----------------------------------------------------------------------------
(* Order fulfilment: the handlers that move an order's status, on orders that
   are created and marked paid directly *)

NextStatus ==
    \/ Tick
    \/ \E u \in Customers, items \in ItemBodies, c \in Charges :
            createOrder(u, items, c.taxPrice, c.shippingPrice)
    \/ \E o \in OrderIds \cup {UnknownOrder}, u \in Users :
            \E body \in PaidBodies(u) : updateOrderToPaid(o, u, body)
    \/ \E o \in OrderIds \cup {UnknownOrder}, u \in Users : updateOrderToDelivered(o, u)
    \/ \E o \in OrderIds \cup {UnknownOrder}, u \in Users, body \in UpdateBodies :
            updateOrder(o, u, body)
    \/ \E o \in OrderIds \cup {UnknownOrder}, u \in Users, s \in Statuses :
            updateOrderStatus(o, u, s)

SpecStatus == Init /\ [][NextStatus]_vars

----------------------------------------------------------------------------
(* The race of the two completion channels: one unpaid order of u1 (created
   under an earlier or the current catalog), its intent pi_1 succeeded at the
   gateway, and exactly one confirmPayment request and one payment-success
   webhook delivery still to arrive *)

RaceOrder == 1
RacePayment == IntentId(1)
RaceEvent ==
    [type |-> "payment_intent.succeeded", id |-> RacePayment,
     status |-> intents[1].status, amount |-> intents[1].amount]

InitRace ==
    /\ products \in [ProductIds -> Prices]
    /\ \E c \in Charges, items \in ItemLists, catalog \in [ProductIds -> Prices] :
          /\ items # <<>>
          /\ \A k \in 1..Len(items) : items[k].product \in ProductIds
          /\ orders = << NewOrder("u1", items, c.taxPrice, c.shippingPrice, catalog) >>
    /\ intents = << [status |-> "succeeded", amount |-> IntentAmount(orders[1]),
                     order |-> RaceOrder] >>
    /\ now \in Times
    /\ confirm = Idle
    /\ resp = [op |-> "none", status |-> 0]
    /\ inbox = {"confirmPayment", "webhook"}

NextRace ==
    \/ Tick
    \/ ConfirmLoad(RaceOrder, RacePayment, orders[RaceOrder].user)
    \/ ConfirmVerify
    \/ ConfirmSave
    \/ webhook(RaceEvent, Sign(RaceEvent, WebhookSecret))

SpecRace == InitRace /\ [][NextRace]_vars

----------------------------------------------------------------------------
(* One intent, two orders: a customer holds two unpaid orders and one intent,
   created for the first of them, that succeeded at the gateway; confirmPayment
   requests for either order and the gateway's deliveries may arrive in any
   number and order *)

SharedOrders == {1, 2}
SharedPayment == IntentId(1)

InitShared ==
    /\ products \in [ProductIds -> Prices]
    /\ \E c1 \in Charges, c2 \in Charges, items \in ItemLists :
          /\ items # <<>>
          /\ \A k \in 1..Len(items) : items[k].product \in ProductIds
          /\ orders = << NewOrder("u1", items, c1.taxPrice, c1.shippingPrice, products),
                         NewOrder("u1", items, c2.taxPrice, c2.shippingPrice, products) >>
    /\ intents = << [status |-> "succeeded", amount |-> IntentAmount(orders[1]),
                     order |-> 1] >>
    /\ now = 0
    /\ confirm = Idle
    /\ resp = [op |-> "none", status |-> 0]
    /\ inbox = {"any"}

NextShared ==
    \/ Tick
    \/ \E o \in SharedOrders : ConfirmLoad(o, SharedPayment, orders[o].user)
    \/ ConfirmVerify
    \/ ConfirmSave
    \/ \E payload \in GatewayEvents : webhook(payload, Sign(payload, WebhookSecret))

SpecShared == InitShared /\ [][NextShared]_vars

----------------------------------------------------------------------------
(* The paid flag under the payment and status operations: one unpaid order of
   u1 and the handlers that pay it, deliver it or set its status *)

InitPaid ==
    /\ products \in [ProductIds -> Prices]
    /\ \E c \in Charges, items \in ItemLists :
          /\ items # <<>>
          /\ \A k \in 1..Len(items) : items[k].product \in ProductIds
          /\ orders = << NewOrder("u1", items, c.taxPrice, c.shippingPrice, products) >>
    /\ intents = <<>>
    /\ now = 0
    /\ confirm = Idle
    /\ resp = [op |-> "none", status |-> 0]
    /\ inbox = {"any"}

NextPaid ==
    \/ Tick
    \/ \E i \in 1..MaxIntents : GatewaySucceed(i)
    \/ \E o \in OrderIds, u \in Customers : createPaymentIntent(o, u)
    \/ \E o \in OrderIds, u \in Customers, pid \in IntentIds : ConfirmLoad(o, pid, u)
    \/ ConfirmVerify
    \/ ConfirmSave
    \/ \E payload \in GatewayEvents : webhook(payload, Sign(payload, WebhookSecret))
    \/ \E o \in OrderIds, u \in Customers :
            \E body \in PaidBodies(u) : updateOrderToPaid(o, u, body)
    \/ \E o \in OrderIds : updateOrderToDelivered(o, "adm")
    \/ \E o \in OrderIds, s \in Statuses : updateOrderStatus(o, "adm", s)

SpecPaid == InitPaid /\ [][NextPaid]_vars

----------------------------------------------------------------------------
(* Properties *)

Stored == 1..Len(orders)
PaidWith(o, pid) ==
    /\ orders[o].isPaid
    /\ orders[o].paymentResult # Null
    /\ Val(orders[o].paymentResult).id = pid
SuccessEvent(i) ==
    [type |-> "payment_intent.succeeded", id |-> IntentId(i),
     status |-> intents[i].status, amount |-> intents[i].amount]
Succeeded == { i \in 1..Len(intents) : intents[i].status = "succeeded" }
(* A genuine, correctly signed payment-success delivery for intent i *)
SuccessDelivery(i) == webhook(SuccessEvent(i), Sign(SuccessEvent(i), WebhookSecret))
RaceOver == inbox = {} /\ confirm.pc = "idle"

(* C1 -- race convergence: with one confirmPayment and one payment-success
   webhook for pi_1 racing on an unpaid order, every response is a success,
   once the order is paid the other request writes nothing (one write, paidAt
   assigned once), and when both are done the order is paid with pi_1. *)
C1_RaceConvergence ==
    /\ [](RaceOver => PaidWith(RaceOrder, RacePayment))
    /\ [][ /\ (resp' # resp => resp'.status = 200)
           /\ (orders[RaceOrder].isPaid => orders' = orders) ]_vars

(* C2 -- idempotence: a completion signal (the save of a confirmPayment, or a
   genuine payment-success webhook) for intent X on an order already paid with
   X leaves every order exactly as it was. *)
C2_Idempotent ==
    [][ /\ \A o \in Stored :
              ( /\ ConfirmSave
                /\ confirm.orderId = o
                /\ PaidWith(o, Val(confirm.edited.paymentResult).id) )
              => orders' = orders
        /\ \A i \in Succeeded, o \in Stored :
              (PaidWith(o, IntentId(i)) /\ SuccessDelivery(i)) => orders' = orders
      ]_vars

(* C3 -- double-payment detection: a payment id bound to a paid order is never
   replaced by a different one, and a confirmPayment that carries a different
   intent for a paid order does not succeed. *)
C3_NoSecondPayment ==
    [][ /\ \A o \in Stored :
              (orders[o].isPaid /\ orders[o].paymentResult # Null)
              => /\ orders'[o].paymentResult # Null
                 /\ Val(orders'[o].paymentResult).id = Val(orders[o].paymentResult).id
        /\ ( /\ ConfirmSave
             /\ orders[confirm.orderId].isPaid
             /\ orders[confirm.orderId].paymentResult # Null
             /\ Val(orders[confirm.orderId].paymentResult).id
                    # Val(confirm.edited.paymentResult).id )
           => resp'.status # 200
      ]_vars

(* C4 -- price immutability: no step of the catalog and payment handlers
   changes a stored order's item price snapshot or its totalPrice. *)
C4_PriceImmutable ==
    [][ \A o \in Stored :
            /\ orders'[o].items = orders[o].items
            /\ orders'[o].totalPrice = orders[o].totalPrice ]_vars

(* a paid order whose snapshot differs from the catalog price of today *)
C4_Witness ==
    \E o \in Stored :
        /\ orders[o].isPaid
        /\ \E k \in 1..Len(orders[o].items) :
              orders[o].items[k].price # products[orders[o].items[k].product]

(* C5 -- the amount of every created intent is the frozen total of its order
   (in cents). *)
C5_IntentAmountIsTotal ==
    \A i \in 1..Len(intents) :
        intents[i].amount = orders[intents[i].order].totalPrice * 100

(* C6 -- no regression: no step moves an order backward in
   unpaid -> paid -> processing -> delivered. *)
Rank(order) ==
    IF order.status = "delivered" THEN 4
    ELSE IF order.status = "processing" THEN 3
    ELSE IF order.isPaid THEN 2
    ELSE 1
C6_NoRegression ==
    [][ \A o \in Stored : Rank(orders'[o]) >= Rank(orders[o]) ]_vars

(* C7 -- a confirmPayment request by a user who is not the owner of the order
   is answered 401, is not kept in flight and changes no order; a request in
   flight is always the owner's. *)
C7_ConfirmUnauthorized ==
    /\ [](confirm.pc # "idle" => orders[confirm.orderId].user = confirm.user)
    /\ [][ \A o \in Stored, u \in Users, pid \in IntentIds \cup {UnknownIntent} :
              (u # orders[o].user /\ ConfirmLoad(o, pid, u))
              => /\ resp' = [op |-> "confirmPayment", status |-> 401]
                 /\ orders' = orders
                 /\ confirm' = Idle ]_vars

(* the 401 was given although a succeeded intent was at hand *)
C7_Witness ==
    /\ resp = [op |-> "confirmPayment", status |-> 401]
    /\ Succeeded # {}
    /\ \E o \in Stored : ~orders[o].isPaid

(* C8 -- amount tamper rejection: a genuine payment-success webhook whose
   amount differs from the frozen total of the order its intent was created
   for changes no order. *)
C8_AmountMismatchNoChange ==
    [][ \A i \in Succeeded :
            ( /\ intents[i].amount # orders[intents[i].order].totalPrice * 100
              /\ SuccessDelivery(i) )
            => orders' = orders ]_vars

(* C9 -- a webhook request whose signature does not verify is answered 400
   and leaves the order collection as it was. *)
C9_BadSignatureRejected ==
    [][ \/ resp'.op # "webhook"
        \/ (resp' = [op |-> "webhook", status |-> 400] /\ orders' = orders)
        \/ \A payload \in ForgedEvents :
              \A sig \in ForgedSignatures(payload) :
                ~(sig # Sign(payload, WebhookSecret) /\ webhook(payload, sig)) ]_vars

(* the 400 was given while a paid order carried an intent id a forged
   payment-success payload could name *)
C9_Witness ==
    /\ resp = [op |-> "webhook", status |-> 400]
    /\ \E o \in Stored, pid \in IntentIds : PaidWith(o, pid)

(* C10 -- arrival-order independence: a genuine payment-success webhook for
   the intent of an unpaid order marks that order paid with that intent. *)
C10_WebhookFirstPays ==
    [][ \A i \in Succeeded :
            (~orders[intents[i].order].isPaid /\ SuccessDelivery(i))
            => PaidWith(intents[i].order, IntentId(i))' ]_vars

(* C11 -- a correctly signed webhook carrying a payment-failure event or an
   event of a type the handler does not know changes no order (an unpaid
   order stays unpaid) and is acknowledged with 200 {received: true}. *)
C11_FailureEventNoChange ==
    [][ \/ resp'.op # "webhook"
        \/ \A payload \in GatewayEvents :
              ( /\ payload.type # "payment_intent.succeeded"
                /\ webhook(payload, Sign(payload, WebhookSecret)) )
              => /\ orders' = orders
                 /\ resp' = [op |-> "webhook", status |-> 200] ]_vars

(* the acknowledgement of an event that was not a payment success (no intent
   has succeeded), with an order still awaiting payment *)
C11_Witness ==
    /\ resp = [op |-> "webhook", status |-> 200]
    /\ Succeeded = {}
    /\ intents # <<>>
    /\ \E o \in Stored : ~orders[o].isPaid

(* C12 -- delivery requires payment: an order that is marked delivered
   (isDelivered, or status 'delivered') became paid at some earlier time
   (paidAt is assigned when an order becomes paid and no modelled handler
   clears it). *)
C12_DeliveredWasPaid ==
    \A o \in Stored :
        (orders[o].isDelivered \/ orders[o].status = "delivered")
        => orders[o].paidAt # Null

(* C13 -- invalid transitions: a status update that asks for a status other
   than the current one and is not an edge of the transition table
   (paid -> processing, processing -> delivered) is refused and leaves the
   order collection as it was. *)
SpecState(order) ==
    IF order.status = "delivered" THEN "Delivered"
    ELSE IF order.status = "processing" THEN "Processing"
    ELSE IF order.isPaid THEN "Paid"
    ELSE "AwaitingPayment"
IsEdge(order, status) ==
    \/ SpecState(order) = "Paid" /\ status = "processing"
    \/ SpecState(order) = "Processing" /\ status = "delivered"
C13_InvalidTransitionRefused ==
    [][ \/ resp'.op # "updateOrderStatus"
        \/ \A o \in Stored, s \in Statuses :
              ( /\ s # orders[o].status
                /\ ~IsEdge(orders[o], s)
                /\ updateOrderStatus(o, "adm", s) )
              => /\ orders' = orders
                 /\ resp'.status # 200 ]_vars

(* C14 -- paid only through the gateway: an order's paid flag turns true only
   in a step that completes a gateway-verified payment (the save of a
   confirmPayment whose intent the gateway reported as succeeded, or a
   verified payment-success webhook) or in an administrator's request; a
   request of a non-admin owner outside the two gateway paths sets neither
   the paid flag nor the payment reference. *)
C14_PaidOnlyViaGateway ==
    [][ \A o \in Stored :
            ( \/ (~orders[o].isPaid /\ orders'[o].isPaid)
              \/ orders'[o].paymentResult # orders[o].paymentResult )
            => \/ ( /\ ConfirmSave
                    /\ confirm.orderId = o
                    /\ Val(confirm.edited.paymentResult).status = "succeeded" )
               \/ \E i \in Succeeded : SuccessDelivery(i)
               \/ \E body \in PaidBodies("adm") : updateOrderToPaid(o, "adm", body)
      ]_vars

(* C15 -- createPaymentIntent answers 404 for an order that does not exist,
   else 401 for a requester who is not the owner, else 400 for an order that
   is already paid, and creates no intent in these cases; it answers 200, with
   one new intent, only for an existing, owned, unpaid order. *)
C15_IntentRefusals ==
    [][ \/ resp'.op # "createPaymentIntent"
        \/ \A o \in OrderIds \cup {UnknownOrder}, u \in Users :
              createPaymentIntent(o, u)
              => /\ ~Exists(o)
                        => (resp'.status = 404 /\ intents' = intents)
                 /\ (Exists(o) /\ orders[o].user # u)
                        => (resp'.status = 401 /\ intents' = intents)
                 /\ (Exists(o) /\ orders[o].user = u /\ orders[o].isPaid)
                        => (resp'.status = 400 /\ intents' = intents)
                 /\ (Exists(o) /\ orders[o].user = u /\ ~orders[o].isPaid)
                        => (resp'.status = 200 /\ Len(intents') = Len(intents) + 1)
      ]_vars

(* a requester who is not the owner was refused with 401 on an order that is
   already paid: the ownership check came before the paid check *)
C15_Witness ==
    /\ resp = [op |-> "createPaymentIntent", status |-> 401]
    /\ \A o \in OrderIds : Exists(o) /\ orders[o].isPaid

(* C16 -- confirmPayment writes only after the gateway verified the payment:
   when the retrieval of the intent fails, or the intent's status is not
   succeeded (answered 400), the request ends without a success response and
   the order collection is as it was; a request reaches its save only with a
   succeeded intent, and no step of a request before its save writes. *)
C16_WriteAfterVerification ==
    /\ [](confirm.pc = "saving"
            => /\ IntentExists(Val(confirm.edited.paymentResult).id)
               /\ intents[IntentIndex(Val(confirm.edited.paymentResult).id)].status
                     = "succeeded")
    /\ [][ /\ (confirm.pc = "loaded" /\ confirm' # confirm
                /\ ~IntentExists(confirm.paymentId))
              => /\ orders' = orders
                 /\ confirm' = Idle
                 /\ resp' = [op |-> "confirmPayment", status |-> 500]
           /\ (confirm.pc = "loaded" /\ confirm' # confirm
                /\ IntentExists(confirm.paymentId)
                /\ intents[IntentIndex(confirm.paymentId)].status # "succeeded")
              => /\ orders' = orders
                 /\ confirm' = Idle
                 /\ resp' = [op |-> "confirmPayment", status |-> 400]
           /\ (confirm.pc # "saving" /\ confirm' # confirm) => orders' = orders
         ]_vars

(* the 400 of a confirmPayment for an intent that had not succeeded, with the
   order still unpaid and without a payment reference *)
C16_Witness ==
    /\ resp = [op |-> "confirmPayment", status |-> 400]
    /\ confirm = Idle
    /\ \E i \in 1..Len(intents) : intents[i].status # "succeeded"
    /\ \E o \in Stored : ~orders[o].isPaid /\ orders[o].paymentResult = Null

(* C17 -- order creation rejects invalid input: a request without an item
   list or with an empty one is refused as a validation error (400), one that
   names a product that does not exist is refused with 404, and in each of
   these cases no order is stored. *)
C17_InvalidInputRejected ==
    [][ \/ resp'.op # "createOrder"
        \/ \A u \in Customers, items \in ItemBodies, c \in Charges :
              createOrder(u, items, c.taxPrice, c.shippingPrice)
              => /\ (items = Null \/ items = Some(<<>>))
                        => (resp'.status = 400 /\ orders' = orders)
                 /\ (items \notin {Null, Some(<<>>)}
                       /\ \E k \in 1..Len(Val(items)) :
                              Val(items)[k].product \notin DOMAIN products)
                        => (resp'.status = 404 /\ orders' = orders)
      ]_vars

(* C18 -- a gateway payment intent pays at most one order: no two distinct
   orders carry the same paymentResult.id. *)
C18_OneOrderPerIntent ==
    \A a \in Stored, b \in Stored :
        ( /\ a # b
          /\ orders[a].paymentResult # Null
          /\ orders[b].paymentResult # Null )
        => Val(orders[a].paymentResult).id # Val(orders[b].paymentResult).id

(* C19 -- the paid flag is monotonic under createPaymentIntent, confirmPayment,
   webhook, updateOrderToPaid, updateOrderToDelivered and updateOrderStatus:
   no step sets isPaid back to false or clears paidAt, and in every state a
   paid order has its paidAt set. *)
C19_PaidMonotonic ==
    /\ [](\A o \in Stored : orders[o].isPaid => orders[o].paidAt # Null)
    /\ [][ \A o \in Stored :
              /\ orders[o].isPaid => orders'[o].isPaid
              /\ orders[o].paidAt # Null => orders'[o].paidAt # Null ]_vars

(* a paid and delivered order whose status an administrator has just set back
   to pending: the paid flag and paidAt are still there *)
C19_Witness ==
    /\ resp = [op |-> "updateOrderStatus", status |-> 200]
    /\ \E o \in Stored :
          /\ orders[o].isPaid
          /\ orders[o].isDelivered
          /\ orders[o].status = "pending"
          /\ orders[o].paymentResult # Null
          /\ Val(orders[o].paymentResult).id \in IntentIds

====
